---- MODULE Spec2Model ----
(***************************************************************************)
(* A model of galman.py: a media collection with a blacklist and a        *)
(* whitelist of file keys, an airlock (staging) directory and a gallery   *)
(* directory; the import of a source directory into the airlock; the      *)
(* review of the airlock through a player with key bindings.               *)
(*                                                                         *)
(* Text (file names, keys, the contents of the key files) is a sequence    *)
(* of one-character strings.  The bytes of a media file are a sequence of  *)
(* numbers.  A directory is a function from base names to file bytes.      *)
(***************************************************************************)
EXTENDS Integers, Sequences, FiniteSets, TLC

VARIABLES
    present,        \* which of the root, the key files and the directories exist
    blacklistFile,  \* text of <root>/.blacklist
    whitelistFile,  \* text of <root>/.whitelist
    airlock,        \* <root>/.airlock : base name -> bytes
    gallery,        \* <root>/Gallery  : base name -> bytes
    pc,             \* position of the main thread of the invocation
    mode,           \* branch of __main__ taken: "import", "view", "review"
    src,            \* the source directory of an import: name -> file
    todo,           \* files of os.walk(src) not yet visited, in order
    blacklist,      \* Collection.blacklist (in memory)
    whitelist,      \* Collection.whitelist (in memory)
    console,        \* lines printed by this invocation
    reads,          \* source files whose bytes this invocation has read
    playlist,       \* the list `playlist` of sort_airlock / view_collection
    mpvPlaylist,    \* player.playlist
    mpvState,       \* "none", "playing", "idle", "quit"
    notified,       \* an end-of-playback / shutdown notification is pending
    decided,        \* history: decisions the handlers took in this invocation
    carried,        \* history: decisions of the invocation before this one
    origin,         \* history: staged base name -> source name it was copied from
    second,         \* history: this import repeats the previous import's source
    airlockAtOpen,  \* history: the airlock when this invocation opened
    given,          \* history: the set of keys handed to the key-file round trip
    call            \* a call of get_file_key: the file, the widths, the result

vars == <<present, blacklistFile, whitelistFile, airlock, gallery, pc, mode,
          src, todo, blacklist, whitelist, console, reads, playlist,
          mpvPlaylist, mpvState, notified, decided, carried, origin, second,
          airlockAtOpen, given, call>>

----------------------------------------------------------------------------
(* Constants of the program *)

HASH_LENGTH == 32
SIZE_LENGTH == 8

IGNORED_EXT ==
    { <<".", "t", "a", "g", "s">>,
      <<".", "s", "w", "f">>,
      <<".", "j", "s", "o", "n">> }

BLACKLIST_FILE == ".blacklist"
WHITELIST_FILE == ".whitelist"
AIRLOCK_DIR == ".airlock"
GALLERY_DIR == "Gallery"
ROOT == "root"
NL == "\n"

----------------------------------------------------------------------------
(* Bounds of the model *)

\* Width in bits of the modelled digest (hashlib.sha256 yields 256 bits).
DigestBits == 12

----------------------------------------------------------------------------
(* Text and number helpers *)

HexChars == <<"0", "1", "2", "3", "4", "5", "6", "7",
              "8", "9", "a", "b", "c", "d", "e", "f">>

RECURSIVE HexDigits(_)
\* '{0:x}'.format(n): the hexadecimal digits of n, no padding.
HexDigits(n) ==
    IF n < 16 THEN <<HexChars[n + 1]>>
    ELSE HexDigits(n \div 16) \o <<HexChars[(n % 16) + 1]>>

RECURSIVE Zeros(_)
Zeros(k) == IF k <= 0 THEN <<>> ELSE <<"0">> \o Zeros(k - 1)

\* '{0:0<length>x}'.format(data): zero-padded to AT LEAST length digits.
hex_encode(data, length) ==
    LET d == HexDigits(data) IN Zeros(length - Len(d)) \o d

RECURSIVE Digest(_)
\* Stands for int(hashlib.sha256(bytes).hexdigest(), 16): a digest of
\* DigestBits bits, computed from the bytes alone.
Digest(bytes) ==
    IF bytes = <<>> THEN 7
    ELSE (Digest(SubSeq(bytes, 1, Len(bytes) - 1)) * 33
            + bytes[Len(bytes)] + 1) % (2 ^ DigestBits)

\* n % (2 ** bits), for n < 2^DigestBits.
ModPow2(n, bits) == IF bits >= DigestBits THEN n ELSE n % (2 ^ bits)

get_file_hash(bytes, hash_length) ==
    hex_encode(ModPow2(Digest(bytes), 4 * hash_length), hash_length)

get_file_size(bytes, size_length) == hex_encode(Len(bytes), size_length)

get_file_key_w(bytes, hash_length, size_length) ==
    get_file_hash(bytes, hash_length) \o get_file_size(bytes, size_length)

get_file_key(bytes) == get_file_key_w(bytes, HASH_LENGTH, SIZE_LENGTH)

\* No call of get_file_key is being followed.
NoCall == [bytes |-> <<>>, hash_length |-> 0, size_length |-> 0, key |-> <<>>]

\* Index of the last "." of a name, 0 when it has none.
LastDot(name) ==
    LET dots == {i \in 1..Len(name) : name[i] = "."}
    IN IF dots = {} THEN 0 ELSE CHOOSE i \in dots : \A j \in dots : j <= i

\* os.path.splitext(fname)[1]: from the last dot on, unless only dots
\* precede it.
get_file_extension(name) ==
    LET i == LastDot(name)
    IN IF i = 0 \/ (\A j \in 1..(i - 1) : name[j] = ".") THEN <<>>
       ELSE SubSeq(name, i, Len(name))

----------------------------------------------------------------------------
(* The key files *)

Range(s) == {s[i] : i \in 1..Len(s)}

RECURSIVE SplitLines(_)
\* text.split('\n'): the pieces between newlines; k newlines give k + 1
\* pieces, the empty ones included.
SplitLines(text) ==
    LET nls == {i \in 1..Len(text) : text[i] = NL}
    IN IF nls = {} THEN <<text>>
       ELSE LET i == CHOOSE x \in nls : \A y \in nls : x <= y
            IN <<SubSeq(text, 1, i - 1)>>
                 \o SplitLines(SubSeq(text, i + 1, Len(text)))

\* As with infile.readlines(): every piece keeps a newline.
read_file_keys_readlines(text) == {k \o <<NL>> : k \in Range(SplitLines(text))}

\* read_file_keys(fname), of the text of the file.
read_file_keys(text) == Range(SplitLines(text))

RECURSIVE Orders(_)
\* The orders in which a set can be iterated.
Orders(S) ==
    IF S = {} THEN {<<>>}
    ELSE UNION {{<<x>> \o o : o \in Orders(S \ {x})} : x \in S}

RECURSIVE JoinLines(_)
JoinLines(keys) ==
    IF keys = <<>> THEN <<>>
    ELSE Head(keys) \o <<NL>> \o JoinLines(Tail(keys))

\* write_file_keys(fname, fkeys): the texts it can leave in the file, one
\* for each order in which the set is iterated.
write_file_keys(fkeys) == {JoinLines(o) : o \in Orders(fkeys)}

----------------------------------------------------------------------------
(* Directories *)

EmptyDir == [n \in {} |-> <<>>]

\* The directory with the file `name` holding `bytes` (created or replaced).
WithFile(dir, name, bytes) ==
    [n \in DOMAIN dir \cup {name} |-> IF n = name THEN bytes ELSE dir[n]]

\* As if os.remove left the file where it is.
WithoutFile_keep(dir, name) == dir

\* os.remove of `name`.
WithoutFile(dir, name) == [n \in DOMAIN dir \ {name} |-> dir[n]]

\* os.path.join(directory, base) and os.path.basename(path).
PathJoin(directory, base) == <<directory, base>>
basename(path) == path[2]

----------------------------------------------------------------------------
(* Ordering of names, for sorted(files) *)

Alphabet == <<".", "0", "1", "2", "3", "4", "5", "6", "7", "8", "9",
              "a", "b", "c", "d", "e", "f", "g", "h", "i", "j", "k", "l",
              "m", "n", "o", "p", "q", "r", "s", "t", "u", "v", "w", "x",
              "y", "z">>

Ord(c) == CHOOSE i \in 1..Len(Alphabet) : Alphabet[i] = c

RECURSIVE NameLess(_, _)
\* a < b for Python strings.
NameLess(a, b) ==
    IF b = <<>> THEN FALSE
    ELSE IF a = <<>> THEN TRUE
    ELSE IF Ord(Head(a)) # Ord(Head(b)) THEN Ord(Head(a)) < Ord(Head(b))
    ELSE NameLess(Tail(a), Tail(b))

RECURSIVE Sorted(_)
\* sorted(S) of a set of names.
Sorted(S) ==
    IF S = {} THEN <<>>
    ELSE LET m == CHOOSE x \in S : \A y \in S \ {x} : NameLess(x, y)
         IN <<m>> \o Sorted(S \ {m})

----------------------------------------------------------------------------
(* The files a source directory can hold *)

\* Most files a source directory holds.
MaxSrcFiles == 2

BytesX == <<1>>
BytesY == <<2, 3>>

SourceFiles ==
    { [name |-> <<"a", ".", "j", "p", "g">>, bytes |-> BytesX, readable |-> TRUE],
      [name |-> <<"b", ".", "j", "p", "g">>, bytes |-> BytesX, readable |-> TRUE],
      [name |-> <<"a", ".", "p", "n", "g">>, bytes |-> BytesX, readable |-> TRUE],
      [name |-> <<"b", ".", "p", "n", "g">>, bytes |-> BytesY, readable |-> FALSE],
      [name |-> <<"c", ".", "j", "p", "g">>, bytes |-> BytesY, readable |-> TRUE],
      [name |-> <<"m", ".", "j", "s", "o", "n">>, bytes |-> BytesX, readable |-> TRUE],
      [name |-> <<"n", ".", "j", "s", "o", "n">>, bytes |-> BytesY, readable |-> FALSE] }

\* A source directory: its files by name.
SourceDirs ==
    {[n \in {f.name : f \in fs} |-> CHOOSE f \in fs : f.name = n] :
        fs \in {s \in SUBSET SourceFiles : Cardinality(s) <= MaxSrcFiles}}

NoSource == [n \in {} |-> <<>>]

----------------------------------------------------------------------------
(* Collection *)

\* Collection.__init__ on the file system: what exists afterwards.
InitPresent ==
    present \cup {ROOT, BLACKLIST_FILE, WHITELIST_FILE, AIRLOCK_DIR, GALLERY_DIR}

\* Collection.__init__: creates what is missing, then reads the two key
\* files.  open(f, 'a') of a missing file leaves it empty; nothing that
\* exists is changed.
Collection__init__ ==
    /\ present' = InitPresent
    /\ UNCHANGED <<blacklistFile, whitelistFile, airlock, gallery>>
    /\ blacklist' = read_file_keys(blacklistFile)
    /\ whitelist' = read_file_keys(whitelistFile)

\* As if __exit__ wrote the blacklist alone.
Collection__exit__blacklist_only ==
    /\ blacklistFile' \in write_file_keys(blacklist)
    /\ UNCHANGED whitelistFile

\* Collection.__exit__: writes both sets, whatever ended the body.
Collection__exit__ ==
    /\ blacklistFile' \in write_file_keys(blacklist)
    /\ whitelistFile' \in write_file_keys(whitelist)

\* As if the import did not consult the blacklist.
is_blacklisted_never(fkey) == FALSE

is_blacklisted(fkey) == fkey \in blacklist
is_whitelisted(fkey) == fkey \in whitelist

\* As if the handler's key were dropped.
blacklist_file_noop(fkey) == blacklist

blacklist_file(fkey) == blacklist \cup {fkey}
whitelist_file(fkey) == whitelist \cup {fkey}

----------------------------------------------------------------------------
(* __main__ *)

Init ==
    /\ present = {}
    /\ blacklistFile = <<>>
    /\ whitelistFile = <<>>
    /\ airlock = EmptyDir
    /\ gallery = EmptyDir
    /\ pc = "closed"
    /\ mode = "none"
    /\ src = NoSource
    /\ todo = <<>>
    /\ blacklist = {}
    /\ whitelist = {}
    /\ console = <<>>
    /\ reads = {}
    /\ playlist = <<>>
    /\ mpvPlaylist = <<>>
    /\ mpvState = "none"
    /\ notified = FALSE
    /\ decided = {}
    /\ carried = {}
    /\ origin = EmptyDir
    /\ second = FALSE
    /\ airlockAtOpen = EmptyDir
    /\ given = {}
    /\ call = NoCall

\* `with Collection(ARGS.collection) as COL:` in the branch m of __main__,
\* with the source directory s (an existing directory) when importing.
Open(m, s) ==
    /\ pc = "closed"
    /\ Collection__init__
    /\ pc' = "opened"
    /\ mode' = m
    /\ src' = s
    /\ console' = <<>>
    /\ reads' = {}
    /\ carried' = decided
    /\ decided' = {}
    /\ second' = (m = "import" /\ mode = "import" /\ s = src)
    /\ airlockAtOpen' = airlock
    /\ UNCHANGED <<call, given, todo, playlist, mpvPlaylist, mpvState, notified,
                   origin>>

MainImport == \E s \in SourceDirs : Open("import", s)

\* As if the collection were opened before the source is tested.
PresentAfterBadSource_opened == InitPresent

\* What exists after the import branch found that ARGS.source is no
\* directory: the test precedes Collection(...), so what existed before.
PresentAfterBadSource == present

\* What ARGS.source can name, other than a directory.
BadSources == {"a file", "nothing"}

\* The import branch with a source that is a file or does not exist: the
\* message is printed and sys.exit(-1) ends the invocation.
MainBadSource ==
    /\ pc = "closed"
    /\ \E s \in BadSources :
         console' = <<[out |-> "no source directory", file |-> s]>>
    /\ present' = PresentAfterBadSource
    /\ UNCHANGED <<call, given, blacklistFile, whitelistFile, airlock, gallery, pc,
                   mode, src, todo, blacklist, whitelist, reads, playlist,
                   mpvPlaylist, mpvState, notified, decided, carried, origin,
                   second, airlockAtOpen>>
MainView == Open("view", NoSource)
MainReview == Open("review", NoSource)

\* The end of the with block: __exit__ runs after the body returned and
\* after it raised, and the process ends.
Exit ==
    /\ pc \in {"exit", "raised"}
    /\ Collection__exit__
    /\ pc' = "closed"
    /\ blacklist' = {}
    /\ whitelist' = {}
    /\ todo' = <<>>
    /\ playlist' = <<>>
    /\ mpvPlaylist' = <<>>
    /\ mpvState' = "none"
    /\ notified' = FALSE
    /\ console' = <<>>
    /\ reads' = {}
    /\ carried' = {}
    /\ second' = FALSE
    /\ airlockAtOpen' = EmptyDir
    /\ UNCHANGED <<call, given, present, airlock, gallery, mode, src, decided, origin>>

----------------------------------------------------------------------------
(* import_files *)

Printed(what, file) == Append(console, [out |-> what, file |-> file])

\* os.walk(src, topdown=False) with sorted(files), of a directory without
\* subdirectories.
Walk(dir) == Sorted(DOMAIN dir)

ImportBegin ==
    /\ pc = "opened"
    /\ mode = "import"
    /\ pc' = "import"
    /\ todo' = Walk(src)
    /\ UNCHANGED <<call, given, present, blacklistFile, whitelistFile, airlock, gallery,
                   mode, src, blacklist, whitelist, console, reads, playlist,
                   mpvPlaylist, mpvState, notified, decided, carried, origin,
                   second, airlockAtOpen>>

\* The name of the staged file: fkey + ext.
Target(fkey, ext) == fkey \o ext

\* As if the import did not test for an existing target.
TargetExists_never(target) == FALSE

\* os.path.exists(target), of a path in the airlock.
TargetExists(target) == target \in DOMAIN airlock

\* As if the file were moved into the airlock.
SourceAfterMove(dir, fil) == WithoutFile(dir, fil)

\* shutil.copy(fname, target): the source directory keeps the file.
SourceAfterCopy(dir, fil) == dir

\* As if every file could be read.
ReadFails_never(f) == FALSE

\* open(fname, 'rb') in get_file_hash raises for a file that cannot be read.
ReadFails(f) == ~f.readable

\* One pass of the loop body, for the file at the head of the walk.  The key
\* is computed first (the bytes are read), then the extension is tested.
ImportFile ==
    /\ pc = "import"
    /\ todo # <<>>
    /\ LET fil == Head(todo)
           f == src[fil]
           ext == get_file_extension(fil)
           fkey == get_file_key(f.bytes)
           target == Target(fkey, ext)
       IN IF ReadFails(f)
          THEN \* get_file_key raises; the exception leaves import_files
               /\ pc' = "raised"
               /\ UNCHANGED <<todo, airlock, console, reads, origin, src>>
          ELSE /\ pc' = "import"
               /\ todo' = Tail(todo)
               /\ reads' = reads \cup {fil}
               /\ IF ext \in IGNORED_EXT
                  THEN /\ console' = Printed("ignored", fil)
                       /\ UNCHANGED <<airlock, origin, src>>
                  ELSE IF ~is_blacklisted(fkey) /\ ~is_whitelisted(fkey)
                  THEN IF ~TargetExists(target)
                       THEN /\ airlock' = WithFile(airlock, target, f.bytes)
                            /\ src' = SourceAfterCopy(src, fil)
                            /\ origin' = WithFile(origin, target, fil)
                            /\ console' = Printed("copied", fil)
                       ELSE UNCHANGED <<airlock, origin, console, src>>
                  ELSE /\ console' = Printed("ignored", fil)
                       /\ UNCHANGED <<airlock, origin, src>>
    /\ UNCHANGED <<call, given, present, blacklistFile, whitelistFile, gallery, mode,
                   blacklist, whitelist, playlist, mpvPlaylist, mpvState,
                   notified, decided, carried, second, airlockAtOpen>>

\* The walk is exhausted: import_files returns.
ImportDone ==
    /\ pc = "import"
    /\ todo = <<>>
    /\ pc' = "exit"
    /\ UNCHANGED <<call, given, present, blacklistFile, whitelistFile, airlock, gallery,
                   mode, src, todo, blacklist, whitelist, console, reads,
                   playlist, mpvPlaylist, mpvState, notified, decided,
                   carried, origin, second, airlockAtOpen>>

----------------------------------------------------------------------------
(* sort_airlock and its handlers *)

\* player.playlist_pos: the entry being played, -1 when there is none.
\* Nothing bound in sort_airlock moves it off the head of the list.
playlist_pos == IF mpvPlaylist = <<>> THEN -1 ELSE 0

\* player.playlist[player.playlist_pos]['filename']
CurrentFile == mpvPlaylist[playlist_pos + 1]

\* As if the current entry stayed in the player's list.
playlist_remove_keep == mpvPlaylist

\* player.playlist_remove(): drops the current entry; the player goes on
\* with the next one, or idles.
playlist_remove == Tail(mpvPlaylist)

\* os.listdir(col.get_airlock()) joined with the airlock path; the order of
\* the listing is arbitrary.
ReviewBegin ==
    /\ pc = "opened"
    /\ mode = "review"
    /\ \E o \in Orders(DOMAIN airlock) :
         LET listing == [i \in DOMAIN o |-> PathJoin(AIRLOCK_DIR, o[i])]
         IN IF listing = <<>>
            THEN /\ console' = Printed("airlock empty", <<>>)
                 /\ pc' = "exit"
                 /\ UNCHANGED <<playlist, mpvPlaylist, mpvState>>
            ELSE /\ playlist' = listing
                 /\ mpvPlaylist' = listing
                 /\ mpvState' = "playing"
                 /\ pc' = "loop"
                 /\ UNCHANGED console
    /\ UNCHANGED <<call, given, present, blacklistFile, whitelistFile, airlock, gallery,
                   mode, src, todo, blacklist, whitelist, reads, notified,
                   decided, carried, origin, second, airlockAtOpen>>

\* while playlist: print(playlist[0]); del playlist[0];
\* player.wait_for_playback() -- up to the wait.
LoopIter ==
    /\ pc = "loop"
    /\ playlist # <<>>
    /\ console' = Printed("progress", playlist[1])
    /\ playlist' = Tail(playlist)
    /\ pc' = "waiting"
    /\ UNCHANGED <<call, given, present, blacklistFile, whitelistFile, airlock, gallery,
                   mode, src, todo, blacklist, whitelist, reads, mpvPlaylist,
                   mpvState, notified, decided, carried, origin, second,
                   airlockAtOpen>>

\* wait_for_playback returns: the current entry ended or the player shut down.
Wake ==
    /\ pc = "waiting"
    /\ notified
    /\ notified' = FALSE
    /\ pc' = "loop"
    /\ UNCHANGED <<call, given, present, blacklistFile, whitelistFile, airlock, gallery,
                   mode, src, todo, blacklist, whitelist, console, reads,
                   playlist, mpvPlaylist, mpvState, decided, carried, origin,
                   second, airlockAtOpen>>

\* The loop ends: del player; sort_airlock returns.
LoopEnd ==
    /\ pc = "loop"
    /\ playlist = <<>>
    /\ console' = Printed("done", <<>>)
    /\ mpvPlaylist' = <<>>
    /\ mpvState' = "none"
    /\ pc' = "exit"
    /\ UNCHANGED <<call, given, present, blacklistFile, whitelistFile, airlock, gallery,
                   mode, src, todo, blacklist, whitelist, reads, playlist,
                   notified, decided, carried, origin, second, airlockAtOpen>>

\* An exception leaves the loop: wait_for_playback raises (the player was
\* shut down under it) or the user interrupts the wait.
ReviewRaise ==
    /\ pc = "waiting"
    /\ pc' = "raised"
    /\ UNCHANGED <<call, given, present, blacklistFile, whitelistFile, airlock,
                   gallery, mode, src, todo, blacklist, whitelist, console,
                   reads, playlist, mpvPlaylist, mpvState, notified, decided,
                   carried, origin, second, airlockAtOpen>>

\* A key event reaches a handler while the main thread waits in
\* wait_for_playback and the player plays an entry.
HandlerReady ==
    /\ pc = "waiting"
    /\ ~notified
    /\ mpvState = "playing"

Decision(act, fname, fkey) ==
    [act |-> act, base |-> basename(fname), key |-> fkey,
     orig |-> origin[basename(fname)]]

\* blacklist_handler.handler on a key-up event.
BlacklistHandler ==
    /\ HandlerReady
    /\ LET fname == CurrentFile
           fkey == get_file_key(airlock[basename(fname)])
       IN /\ blacklist' = blacklist_file(fkey)
          /\ mpvPlaylist' = playlist_remove
          /\ airlock' = WithoutFile(airlock, basename(fname))
          /\ origin' = WithoutFile(origin, basename(fname))
          /\ console' = Printed("blacklisted", fname)
          /\ decided' = decided \cup {Decision("reject", fname, fkey)}
    /\ mpvState' = IF mpvPlaylist' = <<>> THEN "idle" ELSE "playing"
    /\ notified' = TRUE
    /\ UNCHANGED <<call, given, present, blacklistFile, whitelistFile, gallery, pc, mode,
                   src, todo, whitelist, reads, playlist, carried, second,
                   airlockAtOpen>>

\* As if the move used the whole path, not its base name.
GalleryName_path(fname) == fname

\* Where shutil.move puts the file: the gallery, under the base name of the
\* path that was played.
GalleryName(fname) == basename(fname)

\* whitelist_handler.handler on a key-up event.
WhitelistHandler ==
    /\ HandlerReady
    /\ LET fname == CurrentFile
           fkey == get_file_key(airlock[basename(fname)])
       IN /\ whitelist' = whitelist_file(fkey)
          /\ mpvPlaylist' = playlist_remove
          /\ gallery' = WithFile(gallery, GalleryName(fname),
                                 airlock[basename(fname)])
          /\ airlock' = WithoutFile(airlock, basename(fname))
          /\ origin' = WithoutFile(origin, basename(fname))
          /\ console' = Printed("whitelisted", fname)
          /\ decided' = decided \cup {Decision("accept", fname, fkey)}
    /\ mpvState' = IF mpvPlaylist' = <<>> THEN "idle" ELSE "playing"
    /\ notified' = TRUE
    /\ UNCHANGED <<call, given, present, blacklistFile, whitelistFile, pc, mode, src, todo,
                   blacklist, reads, playlist, carried, second, airlockAtOpen>>

\* quit_handler.handler on a key-up event: player.quit(); playlist.clear().
QuitHandler ==
    /\ HandlerReady
    /\ mpvState' = "quit"
    /\ playlist' = <<>>
    /\ console' = Printed("quitting", <<>>)
    /\ notified' = TRUE
    /\ UNCHANGED <<call, given, present, blacklistFile, whitelistFile, airlock, gallery,
                   pc, mode, src, todo, blacklist, whitelist, reads,
                   mpvPlaylist, decided, carried, origin, second,
                   airlockAtOpen>>

----------------------------------------------------------------------------
(* view_collection *)

\* The gallery is listed and shuffled; an empty gallery returns at once.
ViewBegin ==
    /\ pc = "opened"
    /\ mode = "view"
    /\ \E o \in Orders(DOMAIN gallery) :
         LET listing == [i \in DOMAIN o |-> PathJoin(GALLERY_DIR, o[i])]
         IN IF listing = <<>>
            THEN /\ console' = Printed("gallery empty", <<>>)
                 /\ pc' = "exit"
                 /\ UNCHANGED <<playlist, mpvPlaylist, mpvState>>
            ELSE /\ playlist' = listing
                 /\ mpvPlaylist' = listing
                 /\ mpvState' = "playing"
                 /\ pc' = "viewing"
                 /\ UNCHANGED console
    /\ UNCHANGED <<call, given, present, blacklistFile, whitelistFile, airlock, gallery,
                   mode, src, todo, blacklist, whitelist, reads, notified,
                   decided, carried, origin, second, airlockAtOpen>>

\* `while playlist:` never shortens the list: the loop is left only by an
\* exception (the player was shut down, or the user interrupted).
ViewRaise ==
    /\ pc = "viewing"
    /\ pc' = "raised"
    /\ UNCHANGED <<call, given, present, blacklistFile, whitelistFile, airlock, gallery,
                   mode, src, todo, blacklist, whitelist, console, reads,
                   playlist, mpvPlaylist, mpvState, notified, decided,
                   carried, origin, second, airlockAtOpen>>

----------------------------------------------------------------------------

Next ==
    \/ MainImport
    \/ MainBadSource
    \/ MainView
    \/ MainReview
    \/ ImportBegin
    \/ ImportFile
    \/ ImportDone
    \/ ReviewBegin
    \/ LoopIter
    \/ Wake
    \/ LoopEnd
    \/ ReviewRaise
    \/ BlacklistHandler
    \/ WhitelistHandler
    \/ QuitHandler
    \/ ViewBegin
    \/ ViewRaise
    \/ Exit

Spec == Init /\ [][Next]_vars

-----------------------------------------------------------------------------
(* The process killed inside the with block *)

\* The process ends while the collection is open and __exit__ does not run:
\* whatever is in memory is lost, whatever is on disk stays.
Crash ==
    /\ pc \notin {"closed"}
    /\ pc' = "closed"
    /\ blacklist' = {}
    /\ whitelist' = {}
    /\ todo' = <<>>
    /\ playlist' = <<>>
    /\ mpvPlaylist' = <<>>
    /\ mpvState' = "none"
    /\ notified' = FALSE
    /\ console' = <<>>
    /\ reads' = {}
    /\ carried' = {}
    /\ second' = FALSE
    /\ airlockAtOpen' = EmptyDir
    /\ UNCHANGED <<call, given, present, blacklistFile, whitelistFile, airlock,
                   gallery, mode, src, decided, origin>>

\* The source directories of the imports around a crash: one file each.
CrashSources == {s \in SourceDirs : Cardinality(DOMAIN s) = 1}

MainImportOne == \E s \in CrashSources : Open("import", s)

NextCrash ==
    \/ MainImportOne
    \/ MainBadSource
    \/ MainView
    \/ MainReview
    \/ ImportBegin
    \/ ImportFile
    \/ ImportDone
    \/ ReviewBegin
    \/ LoopIter
    \/ Wake
    \/ LoopEnd
    \/ ReviewRaise
    \/ BlacklistHandler
    \/ WhitelistHandler
    \/ QuitHandler
    \/ ViewBegin
    \/ ViewRaise
    \/ Exit
    \/ Crash

SpecCrash == Init /\ [][NextCrash]_vars

-----------------------------------------------------------------------------
(* The quit handler and the loop of sort_airlock, statement by statement *)

\* The player has been told to quit: the handler is between player.quit()
\* and playlist.clear() ("quitting") or has returned ("quit").
PlayerStopped == mpvState \in {"quitting", "quit"}

\* while playlist: the test finds the list non-empty.
LoopTest ==
    /\ pc = "loop"
    /\ playlist # <<>>
    /\ pc' = "print"
    /\ UNCHANGED <<call, given, present, blacklistFile, whitelistFile, airlock,
                   gallery, mode, src, todo, blacklist, whitelist, console,
                   reads, playlist, mpvPlaylist, mpvState, notified, decided,
                   carried, origin, second, airlockAtOpen>>

\* print(playlist[0]) and the progress line; playlist[0] of a list emptied
\* since the test raises IndexError.
LoopPrint ==
    /\ pc = "print"
    /\ IF playlist = <<>>
       THEN /\ pc' = "raised"
            /\ UNCHANGED console
       ELSE /\ console' = Printed("progress", playlist[1])
            /\ pc' = "del"
    /\ UNCHANGED <<call, given, present, blacklistFile, whitelistFile, airlock,
                   gallery, mode, src, todo, blacklist, whitelist, reads,
                   playlist, mpvPlaylist, mpvState, notified, decided,
                   carried, origin, second, airlockAtOpen>>

\* del playlist[0]; on a list emptied since the print it raises IndexError.
LoopDel ==
    /\ pc = "del"
    /\ IF playlist = <<>>
       THEN /\ pc' = "raised"
            /\ UNCHANGED playlist
       ELSE /\ playlist' = Tail(playlist)
            /\ pc' = "wait_call"
    /\ UNCHANGED <<call, given, present, blacklistFile, whitelistFile, airlock,
                   gallery, mode, src, todo, blacklist, whitelist, console,
                   reads, mpvPlaylist, mpvState, notified, decided, carried,
                   origin, second, airlockAtOpen>>

\* player.wait_for_playback() is called.  On a player that has been told to
\* quit the call, which is the library's, blocks until the shutdown is
\* signalled, raises, or blocks for good when the signal has passed.
LoopWait ==
    /\ pc = "wait_call"
    /\ IF PlayerStopped
       THEN pc' \in {"waiting", "raised", "hung"}
       ELSE pc' = "waiting"
    /\ UNCHANGED <<call, given, present, blacklistFile, whitelistFile, airlock,
                   gallery, mode, src, todo, blacklist, whitelist, console,
                   reads, playlist, mpvPlaylist, mpvState, notified, decided,
                   carried, origin, second, airlockAtOpen>>

\* quit_handler.handler on a key-up event, first statement: player.quit().
\* The handler runs on the player's event thread, wherever the main thread
\* is in the loop; the main thread's wait may end from here on.
quit_handler_quit ==
    /\ mode = "review"
    /\ pc \in {"loop", "print", "del", "wait_call", "waiting"}
    /\ mpvState = "playing"
    /\ mpvState' = "quitting"
    /\ notified' \in {notified, TRUE}
    /\ UNCHANGED <<call, given, present, blacklistFile, whitelistFile, airlock,
                   gallery, pc, mode, src, todo, blacklist, whitelist,
                   console, reads, playlist, mpvPlaylist, decided, carried,
                   origin, second, airlockAtOpen>>

\* quit_handler.handler, the rest: playlist.clear(), the print, the return;
\* the shutdown is signalled to the waiting thread at the latest now.
quit_handler_clear ==
    /\ mpvState = "quitting"
    /\ playlist' = <<>>
    /\ console' = Printed("quitting", <<>>)
    /\ mpvState' = "quit"
    /\ notified' = TRUE
    /\ UNCHANGED <<call, given, present, blacklistFile, whitelistFile, airlock,
                   gallery, pc, mode, src, todo, blacklist, whitelist, reads,
                   mpvPlaylist, decided, carried, origin, second,
                   airlockAtOpen>>

NextQuit ==
    \/ MainImportOne
    \/ MainReview
    \/ ImportBegin
    \/ ImportFile
    \/ ImportDone
    \/ ReviewBegin
    \/ LoopTest
    \/ LoopPrint
    \/ LoopDel
    \/ LoopWait
    \/ Wake
    \/ LoopEnd
    \/ BlacklistHandler
    \/ WhitelistHandler
    \/ quit_handler_quit
    \/ quit_handler_clear
    \/ Exit

SpecQuit == Init /\ [][NextQuit]_vars

----------------------------------------------------------------------------
(* The key-file round trip on its own: save then load, repeatedly *)

\* Most keys in the set of the round trip.
MaxStoreKeys == 3

KeyChars == {"0", "f"}
KeyLens == {1, 2}

\* Well-formed keys: non-empty, without a newline.
StoreKeys ==
    UNION {[1..n -> KeyChars] : n \in KeyLens}

StoreInit ==
    /\ given \in {S \in SUBSET StoreKeys : Cardinality(S) <= MaxStoreKeys}
    /\ blacklist = given
    /\ pc = "store_open"
    /\ present = {ROOT, BLACKLIST_FILE}
    /\ blacklistFile = <<>>
    /\ whitelistFile = <<>>
    /\ airlock = EmptyDir
    /\ gallery = EmptyDir
    /\ mode = "none"
    /\ src = NoSource
    /\ todo = <<>>
    /\ whitelist = {}
    /\ console = <<>>
    /\ reads = {}
    /\ playlist = <<>>
    /\ mpvPlaylist = <<>>
    /\ mpvState = "none"
    /\ notified = FALSE
    /\ decided = {}
    /\ carried = {}
    /\ origin = EmptyDir
    /\ second = FALSE
    /\ airlockAtOpen = EmptyDir
    /\ call = NoCall

\* write_file_keys(path, S), as __exit__ calls it.
StoreSave ==
    /\ pc = "store_open"
    /\ blacklistFile' \in write_file_keys(blacklist)
    /\ blacklist' = {}
    /\ pc' = "store_closed"
    /\ UNCHANGED <<call, given, present, whitelistFile, airlock, gallery, mode, src,
                   todo, whitelist, console, reads, playlist, mpvPlaylist,
                   mpvState, notified, decided, carried, origin, second,
                   airlockAtOpen>>

\* read_file_keys(path), as __init__ calls it.
StoreLoad ==
    /\ pc = "store_closed"
    /\ blacklist' = read_file_keys(blacklistFile)
    /\ pc' = "store_open"
    /\ UNCHANGED <<call, given, present, blacklistFile, whitelistFile, airlock,
                   gallery, mode, src, todo, whitelist, console, reads,
                   playlist, mpvPlaylist, mpvState, notified, decided,
                   carried, origin, second, airlockAtOpen>>

StoreNext ==
    \/ StoreSave
    \/ StoreLoad

SpecStore == StoreInit /\ [][StoreNext]_vars

-----------------------------------------------------------------------------
(* get_file_key over file sizes and widths *)

\* Bound: the largest file size, in bytes, that a call is given.
MaxFileSize == 17

\* The hash_length and size_length arguments a call is given.
HashWidths == {1, 2, 3}
SizeWidths == {1, 2}

\* The files a call is given: every size from one byte on, two contents.
KeyFiles ==
    {[i \in 1..n |-> b] : n \in 1..MaxFileSize, b \in {1, 2}}

KeyInit ==
    /\ call \in {[bytes |-> f, hash_length |-> h, size_length |-> z,
                  key |-> <<>>] :
                     f \in KeyFiles, h \in HashWidths, z \in SizeWidths}
    /\ pc = "key_call"
    /\ present = {}
    /\ blacklistFile = <<>>
    /\ whitelistFile = <<>>
    /\ airlock = EmptyDir
    /\ gallery = EmptyDir
    /\ mode = "none"
    /\ src = NoSource
    /\ todo = <<>>
    /\ blacklist = {}
    /\ whitelist = {}
    /\ console = <<>>
    /\ reads = {}
    /\ playlist = <<>>
    /\ mpvPlaylist = <<>>
    /\ mpvState = "none"
    /\ notified = FALSE
    /\ decided = {}
    /\ carried = {}
    /\ origin = EmptyDir
    /\ second = FALSE
    /\ airlockAtOpen = EmptyDir
    /\ given = {}

\* get_file_key(fname, hash_length, size_length) returns.
KeyReturn ==
    /\ pc = "key_call"
    /\ call' = [call EXCEPT
                  !.key = get_file_key_w(call.bytes, call.hash_length,
                                         call.size_length)]
    /\ pc' = "key_done"
    /\ UNCHANGED <<given, present, blacklistFile, whitelistFile, airlock,
                   gallery, mode, src, todo, blacklist, whitelist, console,
                   reads, playlist, mpvPlaylist, mpvState, notified, decided,
                   carried, origin, second, airlockAtOpen>>

KeyNext == KeyReturn

SpecKey == KeyInit /\ [][KeyNext]_vars

----------------------------------------------------------------------------
(* Properties *)

EmptyKey == <<>>

\* The key is in one of the two sets in memory.
isKnown(fkey) == fkey \in blacklist \cup whitelist

\* The key of the staged file `base`.
StagedKey(base) == get_file_key(airlock[base])

Reviewing == mode = "review" /\ pc \in {"loop", "waiting"}

\* The staged file the player presents to the reviewer.
Presented == basename(CurrentFile)

\* C1: in a review session, the file presented to the reviewer never has a
\* key for which a decision is recorded (in this session or, through the key
\* files, in an earlier one).
C1_DecidedNeverPresented ==
    (Reviewing /\ mpvState = "playing") => ~isKnown(StagedKey(Presented))

\* C2: the airlock holds at most one staged file per key, and an import
\* stages no file whose key is known.
C2_OneStagedFilePerKey ==
    /\ \A a, b \in DOMAIN airlock : StagedKey(a) = StagedKey(b) => a = b
    /\ mode = "import" /\ pc \in {"import", "exit", "raised"} =>
         \A a \in DOMAIN airlock \ DOMAIN airlockAtOpen : ~isKnown(StagedKey(a))

Copies == {i \in DOMAIN console : console[i].out = "copied"}

InImport == mode = "import" /\ pc \in {"import", "exit", "raised"}

\* C3: an import that repeats the source of the import just before it, with
\* no review in between, copies nothing and leaves the airlock as it found
\* it.
C3_SecondImportChangesNothing ==
    (InImport /\ second) => (airlock = airlockAtOpen /\ Copies = {})

\* C3 witness: the repeated import has finished, and a file of the source is
\* staged under its key, unknown to both sets: the first import copied it.
C3_Witness ==
    /\ mode = "import" /\ pc = "exit" /\ second
    /\ \E n \in DOMAIN src :
         /\ src[n].readable
         /\ ~isKnown(get_file_key(src[n].bytes))
         /\ Target(get_file_key(src[n].bytes), get_file_extension(n))
              \in DOMAIN airlock

\* The files of the walk that the loop has been through.
Visited == DOMAIN src \ Range(todo)

Outcomes(n) == {i \in DOMAIN console : console[i].file = n}

\* C4: every file the import has been through has exactly one outcome on
\* the console, "copied" or "ignored".
C4_OneOutcomePerFile ==
    (mode = "import" /\ pc \in {"import", "exit"}) =>
        \A n \in Visited :
            /\ Cardinality(Outcomes(n)) = 1
            /\ \A i \in Outcomes(n) : console[i].out \in {"copied", "ignored"}

\* C5: the pass of the import loop over a file whose key is in the blacklist
\* or in the whitelist leaves the airlock unchanged.
C5_KnownNeverCopied ==
    [][(pc = "import" /\ todo # <<>>
          /\ src[Head(todo)].readable
          /\ isKnown(get_file_key(src[Head(todo)].bytes)))
        => airlock' = airlock]_vars

\* C5 witness: an import of a source all of whose files are readable media
\* files with a rejected key has finished, and the airlock is as it was.
C5_Witness ==
    /\ mode = "import" /\ pc = "exit"
    /\ DOMAIN src # {}
    /\ \A n \in DOMAIN src :
         /\ src[n].readable
         /\ get_file_extension(n) \notin IGNORED_EXT
         /\ get_file_key(src[n].bytes) \in blacklist
    /\ airlock = airlockAtOpen

\* C6: a source file with an ignored extension is never read (its key is not
\* computed), so it cannot make the import fail.
C6_IgnoredNeverHashed ==
    /\ \A n \in reads : get_file_extension(n) \notin IGNORED_EXT
    /\ (mode = "import" /\ pc = "raised") =>
         get_file_extension(Head(todo)) \notin IGNORED_EXT

\* C7: when the collection is opened again after a session in which a staged
\* file with key k was rejected, k is in the blacklist in memory and in the
\* .blacklist file, and the staged file is not in the airlock.
C7_RejectSurvivesReopen ==
    pc = "opened" =>
        \A d \in carried :
            d.act = "reject" =>
                /\ d.key \in blacklist
                /\ d.key \in read_file_keys(blacklistFile)
                /\ d.base \notin DOMAIN airlock

C7_Witness ==
    /\ pc = "opened"
    /\ \E d \in carried : d.act = "reject"

C9_ExitWritesBoth ==
    [][(pc # "closed" /\ pc' = "closed") =>
          /\ blacklistFile' \in write_file_keys(blacklist)
          /\ whitelistFile' \in write_file_keys(whitelist)]_vars

\* C9 witness: a review session that was left after a decision by a quit or
\* by an exception (staged files remain) has ended, and the decisions are in
\* the key files.
C9_Witness ==
    /\ pc = "closed" /\ mode = "review"
    /\ decided # {}
    /\ DOMAIN airlock # {}
    /\ \A d \in decided :
         d.key \in read_file_keys(IF d.act = "reject" THEN blacklistFile
                                  ELSE whitelistFile)

\* C10: reading back a written set of well-formed keys gives the set, the
\* empty string apart; so do any number of further writes and reads.
C10_RoundTrip ==
    /\ pc = "store_closed" =>
         read_file_keys(blacklistFile) \ {EmptyKey} = given
    /\ pc = "store_open" => blacklist \ {EmptyKey} = given

\* C10 witness: a set of two keys or more has been written and read back.
C10_Witness ==
    /\ pc = "store_open"
    /\ blacklistFile # <<>>
    /\ Cardinality(given) >= 2

Quit == \E i \in DOMAIN console : console[i].out = "quitting"

\* The staged files of this review session that no handler decided.
Undecided == DOMAIN airlockAtOpen \ {d.base : d \in decided}

\* C11: once the reviewer has quit a review session, every staged file of
\* the session that received no decision is still in the airlock with its
\* bytes, and its key is among the keys of no decision of the session.
C11_QuitLeavesTheRest ==
    (mode = "review" /\ pc \in {"loop", "waiting", "exit", "raised"} /\ Quit) =>
        \A n \in Undecided :
            /\ n \in DOMAIN airlock
            /\ airlock[n] = airlockAtOpen[n]
            /\ get_file_key(airlockAtOpen[n]) \notin {d.key : d \in decided}

\* C16: no key of a file is in the blacklist and in the whitelist at once.
C16_SetsDisjoint ==
    (blacklist \cap whitelist) \ {EmptyKey} = {}

\* C18: the sets of an open collection do not hold the empty string.
C18_NoEmptyKey ==
    pc # "closed" => EmptyKey \notin blacklist \cup whitelist

ImportStep == mode = "import" /\ pc \in {"opened", "import"}

\* C12: a step of import_files leaves the source directory, the gallery and
\* the two sets as they are, and every staged file in place with its bytes.
C12_ImportOnlyAdds ==
    [][ImportStep =>
          /\ src' = src
          /\ gallery' = gallery
          /\ blacklist' = blacklist
          /\ whitelist' = whitelist
          /\ \A n \in DOMAIN airlock :
                n \in DOMAIN airlock' /\ airlock'[n] = airlock[n]]_vars

\* C12 witness: an import into an airlock that held a file has copied
\* another one.
C12_Witness ==
    /\ mode = "import" /\ pc = "exit"
    /\ Copies # {}
    /\ DOMAIN airlockAtOpen # {}

\* The invocation ended at the test of the source directory.
BadSourceReported ==
    Len(console) = 1 /\ console[1].out = "no source directory"

\* C14: the step of an invocation whose source is no directory ends the
\* invocation with the collection closed, creates nothing under the root,
\* leaves the key files, the airlock and the gallery as they are, and
\* loads no set.
C14_BadSourceDoesNothing ==
    [][(BadSourceReported' /\ console' # console) =>
          /\ pc' = "closed"
          /\ UNCHANGED <<present, blacklistFile, whitelistFile, airlock,
                         gallery, blacklist, whitelist>>]_vars

\* C14 witness: the invocation on a collection that does not exist yet
\* ended at the test, and nothing exists.
C14_Witness ==
    /\ BadSourceReported
    /\ pc = "closed"
    /\ present = {}

\* The targets of the files this import has copied.
CopiedTargets ==
    {Target(get_file_key(src[console[i].file].bytes),
            get_file_extension(console[i].file)) : i \in Copies}

\* C15: an import never goes past a file it cannot read.  When the read of
\* a file has failed, that file heads the rest of the walk, no file of the
\* rest has been read, the files copied before are staged, the sets in
\* memory are those read at open, and the step that follows (the exit)
\* leaves the airlock alone and writes key files with the same members.
C15_ReadErrorAborts ==
    [][(mode = "import" /\ pc \in {"import", "exit", "raised"}) =>
          /\ \A n \in Visited : src[n].readable
          /\ pc = "raised" =>
                /\ todo # <<>>
                /\ ~src[Head(todo)].readable
                /\ reads \cap Range(todo) = {}
                /\ CopiedTargets \subseteq DOMAIN airlock
                /\ blacklist = read_file_keys(blacklistFile)
                /\ whitelist = read_file_keys(whitelistFile)
                /\ airlock' = airlock
                /\ read_file_keys(blacklistFile') = read_file_keys(blacklistFile)
                /\ read_file_keys(whitelistFile') = read_file_keys(whitelistFile)
       ]_vars

\* C15 witness: an import has failed at a media file it cannot read, with
\* a file after it in the walk, and has exited.
C15_Witness ==
    /\ mode = "import" /\ pc = "closed"
    /\ \E n \in DOMAIN src :
         /\ ~src[n].readable
         /\ get_file_extension(n) \notin IGNORED_EXT
         /\ \E m \in DOMAIN src : NameLess(n, m)

\* C13: the key a call of get_file_key returns has exactly hash_length +
\* size_length characters, whatever the size of the file.
C13_KeyHasFixedLength ==
    pc = "key_done" =>
        Len(call.key) = call.hash_length + call.size_length

\* The keys of the decisions `act` made in this session.
DecidedKeys(act) == {d.key : d \in {e \in decided : e.act = act}}

\* C17: the key files change only when the collection is opened from closed
\* or on the step that closes it; while it is open each set in memory is
\* the set of its file plus the keys decided in this session; a step that
\* ends the process without __exit__ leaves the key files, the airlock and
\* the gallery as they are, with every decided file gone from the airlock
\* and every accepted one in the gallery; and an import that finds a key of
\* the last session's decisions in neither set stages every file of that
\* key it has been through.
C17_FlushOnlyAtClose ==
    [][/\ (blacklistFile' # blacklistFile \/ whitelistFile' # whitelistFile)
            => (pc = "closed" \/ (pc \in {"exit", "raised"} /\ pc' = "closed"))
       /\ pc # "closed" =>
            /\ blacklist = read_file_keys(blacklistFile)
                              \cup DecidedKeys("reject")
            /\ whitelist = read_file_keys(whitelistFile)
                              \cup DecidedKeys("accept")
       /\ Crash =>
            /\ UNCHANGED <<blacklistFile, whitelistFile, airlock, gallery>>
            /\ \A d \in decided :
                 /\ d.base \notin DOMAIN airlock'
                 /\ d.act = "accept" => d.base \in DOMAIN gallery'
       /\ (mode = "import" /\ pc \in {"import", "exit"}) =>
            \A d \in carried : \A n \in Visited :
                 (/\ ~isKnown(d.key)
                  /\ get_file_key(src[n].bytes) = d.key
                  /\ get_file_extension(n) \notin IGNORED_EXT)
                 => Target(d.key, get_file_extension(n)) \in DOMAIN airlock
      ]_vars

\* C17 witness: an import right after a session that rejected a staged file
\* and ended without __exit__ has copied a file of the rejected key.
C17_Witness ==
    /\ mode = "import" /\ pc \in {"import", "exit"}
    /\ \E d \in carried :
         /\ d.act = "reject"
         /\ ~isKnown(d.key)
         /\ d.base \notin DOMAIN airlockAtOpen
         /\ \E i \in Copies :
              get_file_key(src[console[i].file].bytes) = d.key

\* C19: once the quit handler has called player.quit(), the main thread of
\* the review is not about to wait on the stopped player (which it is after
\* it dequeued an item), has not raised on an emptied list or in the wait,
\* and is not blocked for good short of the exit of the with block.
C19_QuitUnwindsCleanly ==
    (mode = "review" /\ PlayerStopped) =>
        pc \notin {"wait_call", "raised", "hung"}

====
